---- MODULE Spec2Model ----
(***************************************************************************)
(* Model of the go-slip codec: the fixed-character Encode/Decode of        *)
(* slip.go, the configurable Encoding (Encode, EncodedLen, SplitPackets)   *)
(* and the bufio.Scanner loop that NewScanner installs SplitPackets into.  *)
(* Bytes are the integers 0..255, runes are integers, a byte slice is a    *)
(* sequence of bytes indexed from 0 as in Go (At, Put).                    *)
(***************************************************************************)
EXTENDS Integers, Sequences, FiniteSets, TLC

VARIABLES
    src,        \* the byte slice handed to the codec call
    enc,        \* the *Encoding the call is made on
    ret,        \* what the last codec call returned
    stream,     \* every byte of the io.Reader's source, delivered or not
    reader,     \* the bytes the io.Reader has not delivered yet
    buf,        \* the scanner's unconsumed bytes, s.buf[s.start:s.end]
    rdErr,      \* s.err after a Read: "nil" or "EOF"
    actuals,    \* the tokens Scan has yielded so far (the test's actuals)
    scanErr,    \* the error that stopped the scanner, as a split error value
    done,       \* Scan has returned false
    consumed,   \* the number of source bytes the scanner has advanced past
    payloads,   \* the payloads the source was encoded from (<<>> for a raw source)
    framed,     \* TRUE when the source is the concatenation of encoded payloads
    call,       \* the last SplitPackets call the scanner made and its result
    pc          \* where the scanner's loop stands: "split" or "read"

vars == <<src, enc, ret, stream, reader, buf, rdErr, actuals, scanErr, done, consumed,
          payloads, framed, call, pc>>

codecVars == <<src, ret>>
scanVars == <<stream, reader, buf, rdErr, actuals, scanErr, done, consumed, payloads,
              framed, call, pc>>

----------------------------------------------------------------------------
(* Bounds of the model. *)

\* longest byte slice handed to a codec call
MaxLen == 5
\* longest raw (unframed) source given to the scanner
MaxStream == 4
\* most payloads encoded into one framed source
MaxPackets == 2
\* most payload bytes encoded into one framed source, all payloads together
MaxPayloadBytes == 2

----------------------------------------------------------------------------
(* slip.go: the fixed control characters. *)

Start == 171
StartEsc == 172
End == 188
EndEsc == 189
Esc == 205
EscEsc == 206

(* The configurable encodings. *)

StartDisabled == -1

StdEncoding ==
    [Start |-> StartDisabled, EscStart |-> StartDisabled,
     End |-> 192, EscEnd |-> 220,
     Esc |-> 219, EscEsc |-> 221]

BluefruitEncoding ==
    [Start |-> 171, EscStart |-> 172,
     End |-> 188, EscEnd |-> 189,
     Esc |-> 205, EscEsc |-> 206]

----------------------------------------------------------------------------
(* Go values. *)

\* rune(b) of a byte is the byte's value; byte(r) of a rune keeps the low 8 bits
ToByte(r) == r % 256

\* a nil slice, distinct from every byte slice (the empty one included)
NilSlice == << -1 >>

\* the value standing for a call that panicked (index out of range)
Panicked == << -2 >>

At(s, i) == s[i + 1]

\* s[i] = b on a slice of fixed length: an index out of range panics
Put(s, i, b) ==
    IF s = Panicked THEN Panicked
    ELSE IF i >= 0 /\ i < Len(s) THEN [s EXCEPT ![i + 1] = b]
    ELSE Panicked

\* make([]byte, n)
Make(n) == IF n < 0 THEN Panicked ELSE [k \in 1..n |-> 0]

\* an error value: its kind, and the index and byte it carries
ErrVal(kind, index, val) == [kind |-> kind, Index |-> index, ControlChar |-> val]

NoErr == ErrVal("nil", 0, 0)

----------------------------------------------------------------------------
(* slip.go *)

\* IsReservedChar with the Esc character forgotten
IsReservedChar_NoEsc(b) == b = Start \/ b = End

IsReservedChar(b) == b = Start \/ b = End \/ b = Esc

RECURSIVE ReservedCharCount(_)
ReservedCharCount(data) ==
    IF data = <<>> THEN 0
    ELSE (IF IsReservedChar(Head(data)) THEN 1 ELSE 0) + ReservedCharCount(Tail(data))

\* the body of Encode's for loop, from index i with write position j
RECURSIVE EncodeLoop(_, _, _, _)
EncodeLoop(data, i, j, out) ==
    IF i >= Len(data) THEN out
    ELSE LET b == At(data, i) IN
         IF b = Start THEN EncodeLoop(data, i + 1, j + 2, Put(Put(out, j, Esc), j + 1, StartEsc))
         ELSE IF b = End THEN EncodeLoop(data, i + 1, j + 2, Put(Put(out, j, Esc), j + 1, EndEsc))
         ELSE IF b = Esc THEN EncodeLoop(data, i + 1, j + 2, Put(Put(out, j, Esc), j + 1, EscEsc))
         ELSE EncodeLoop(data, i + 1, j + 1, Put(out, j, b))

Encode(data) ==
    LET resCount == ReservedCharCount(data)
        out0 == Make(Len(data) + 2 + resCount)
        out1 == Put(out0, 0, Start)
        out2 == EncodeLoop(data, 0, 1, out1)
    IN  IF out2 = Panicked THEN Panicked ELSE Put(out2, Len(out2) - 1, End)

\* the body of Decode's for loop over the interior, from index i
RECURSIVE DecodeLoop(_, _, _)
DecodeLoop(in, i, data) ==
    IF i >= Len(in) THEN [data |-> data, err |-> NoErr]
    ELSE IF At(in, i) = Esc THEN
            IF i + 1 >= Len(in)
            THEN [data |-> NilSlice,
                  err |-> ErrVal("expected an escaped character but reached the end of the buffer", 0, 0)]
            ELSE LET c == At(in, i + 1) IN
                 IF c = StartEsc THEN DecodeLoop(in, i + 2, Append(data, Start))
                 ELSE IF c = EndEsc THEN DecodeLoop(in, i + 2, Append(data, End))
                 ELSE IF c = EscEsc THEN DecodeLoop(in, i + 2, Append(data, Esc))
                 ELSE [data |-> NilSlice,
                       err |-> ErrVal("expected an escaped character but got", 0, c)]
    ELSE DecodeLoop(in, i + 1, Append(data, At(in, i)))

\* Decode with the length check off by one
Decode_ShortByOne(packet) ==
    IF Len(packet) < 1
    THEN [data |-> NilSlice, err |-> ErrVal("packet is too short", 0, Len(packet))]
    ELSE IF At(packet, 0) # Start
    THEN [data |-> NilSlice, err |-> ErrVal("expected SLIP start", 0, At(packet, 0))]
    ELSE IF At(packet, Len(packet) - 1) # End
    THEN [data |-> NilSlice, err |-> ErrVal("expected SLIP end", 0, At(packet, 0))]
    ELSE DecodeLoop(SubSeq(packet, 2, Len(packet) - 1), 0, <<>>)

Decode(packet) ==
    IF Len(packet) < 2
    THEN [data |-> NilSlice, err |-> ErrVal("packet is too short", 0, Len(packet))]
    ELSE IF At(packet, 0) # Start
    THEN [data |-> NilSlice, err |-> ErrVal("expected SLIP start", 0, At(packet, 0))]
    ELSE IF At(packet, Len(packet) - 1) # End
    THEN [data |-> NilSlice, err |-> ErrVal("expected SLIP end", 0, At(packet, 0))]
    ELSE DecodeLoop(SubSeq(packet, 2, Len(packet) - 1), 0, <<>>)

----------------------------------------------------------------------------
(* The configurable Encoding. *)

\* minLength that never counts the Start character
minLength_EndOnly(e) == 1

minLength(e) == IF e.Start = StartDisabled THEN 1 ELSE 2

isValidControlEscChar(e, b) ==
    IF e.EscStart = StartDisabled
    THEN b = e.EscEnd \/ b = e.EscEsc
    ELSE b = e.EscStart \/ b = e.EscEnd \/ b = e.EscEsc

isValidControlChar(e, b) ==
    IF e.Start = StartDisabled
    THEN b = e.End \/ b = e.Esc
    ELSE b = e.Start \/ b = e.End \/ b = e.Esc

RECURSIVE controlCharCount(_, _)
controlCharCount(e, s) ==
    IF s = <<>> THEN 0
    ELSE (IF isValidControlChar(e, Head(s)) THEN 1 ELSE 0) + controlCharCount(e, Tail(s))

\* EncodedLen that leaves the escaped characters out
EncodedLen_NoEscapes(e, s) == Len(s) + minLength(e)

EncodedLen(e, s) == Len(s) + minLength(e) + controlCharCount(e, s)

\* the body of Encoding.Encode's for loop, from index i with write position j;
\* it returns the buffer and the position the End character is written at
RECURSIVE EncodingEncodeLoop(_, _, _, _, _)
EncodingEncodeLoop(e, s, i, j, dst) ==
    IF ~(i < Len(s) /\ j < Len(dst) - 1) THEN [j |-> j, dst |-> dst]
    ELSE LET b == At(s, i) IN
         IF isValidControlChar(e, b)
         THEN LET d1 == Put(dst, j, ToByte(e.Esc))
                  d2 == IF b = e.Start THEN Put(d1, j + 1, ToByte(e.EscStart))
                        ELSE IF b = e.End THEN Put(d1, j + 1, ToByte(e.EscEnd))
                        ELSE IF b = e.Esc THEN Put(d1, j + 1, ToByte(e.EscEsc))
                        ELSE d1
              IN  IF d2 = Panicked THEN [j |-> j, dst |-> Panicked]
                  ELSE EncodingEncodeLoop(e, s, i + 1, j + 2, d2)
         ELSE EncodingEncodeLoop(e, s, i + 1, j + 1, Put(dst, j, b))

EncodingEncode(e, s) ==
    LET dst0 == Make(EncodedLen(e, s))
        started == e.Start # StartDisabled
        dst1 == IF started THEN Put(dst0, 0, ToByte(e.Start)) ELSE dst0
        r == EncodingEncodeLoop(e, s, 0, IF started THEN 1 ELSE 0, dst1)
    IN  Put(r.dst, r.j, ToByte(e.End))

\* SplitPackets' first loop: the index of the first End character (-1 if none)
\* and the number of characters before it that are not Esc
RECURSIVE FindEnd(_, _, _, _)
FindEnd(e, data, i, tokenByteCount) ==
    IF i >= Len(data) THEN [EndIndex |-> -1, tokenByteCount |-> tokenByteCount]
    ELSE IF At(data, i) = e.End THEN [EndIndex |-> i, tokenByteCount |-> tokenByteCount]
    ELSE IF At(data, i) # e.Esc THEN FindEnd(e, data, i + 1, tokenByteCount + 1)
    ELSE FindEnd(e, data, i + 1, tokenByteCount)

\* SplitPackets' second loop: decodes data[i..EndIndex) into token from position j
RECURSIVE SplitDecodeLoop(_, _, _, _, _, _, _)
SplitDecodeLoop(e, data, EndIndex, i, j, inEscSeq, token) ==
    IF i >= EndIndex \/ token = Panicked THEN [token |-> token, err |-> NoErr]
    ELSE LET r == At(data, i) IN
         IF inEscSeq
         THEN IF ~isValidControlEscChar(e, r)
              THEN [token |-> token, err |-> ErrVal("InvalidControlCharError", i, r)]
              ELSE IF r = e.EscStart
                   THEN SplitDecodeLoop(e, data, EndIndex, i + 1, j + 1, FALSE,
                                        Put(token, j, ToByte(e.Start)))
                   ELSE IF r = e.EscEnd
                   THEN SplitDecodeLoop(e, data, EndIndex, i + 1, j + 1, FALSE,
                                        Put(token, j, ToByte(e.End)))
                   ELSE IF r = e.EscEsc
                   THEN SplitDecodeLoop(e, data, EndIndex, i + 1, j + 1, FALSE,
                                        Put(token, j, ToByte(e.Esc)))
                   ELSE [token |-> token, err |-> NoErr]
         ELSE IF r = e.Esc
              THEN SplitDecodeLoop(e, data, EndIndex, i + 1, j, TRUE, token)
              ELSE SplitDecodeLoop(e, data, EndIndex, i + 1, j + 1, FALSE, Put(token, j, r))

\* SplitPackets when no End character was found: wait for more data, or at
\* the end of the source hand back what is left together with io.EOF
\* NoEndFound that does not look at atEOF
NoEndFound_IgnoresAtEOF(data, atEOF) ==
    [advance |-> Len(data), token |-> data, err |-> ErrVal("EOF", 0, 0)]

\* NoEndFound that leaves the leftover bytes in the buffer at the end of the source
NoEndFound_KeepsLeftover(data, atEOF) ==
    IF atEOF
    THEN [advance |-> 0, token |-> NilSlice, err |-> ErrVal("EOF", 0, 0)]
    ELSE [advance |-> 0, token |-> NilSlice, err |-> NoErr]

NoEndFound(data, atEOF) ==
    IF atEOF
    THEN [advance |-> Len(data), token |-> data, err |-> ErrVal("EOF", 0, 0)]
    ELSE [advance |-> 0, token |-> NilSlice, err |-> NoErr]

\* SplitPackets when the first End character is at EndIndex
\* PacketFound that reports the index of an invalid character from StartIndex
PacketFound_IndexFromStart(e, data, EndIndex, tokenByteCount) ==
    LET hasStart == e.Start # StartDisabled /\ At(data, 0) = e.Start
        StartIndex == IF hasStart THEN 1 ELSE 0
        count == IF hasStart THEN tokenByteCount - 1 ELSE tokenByteCount
        r == SplitDecodeLoop(e, data, EndIndex, StartIndex, 0, FALSE, Make(count))
    IN  [advance |-> EndIndex + 1, token |-> r.token,
         err |-> IF r.err = NoErr THEN NoErr
                 ELSE ErrVal(r.err.kind, r.err.Index - StartIndex, r.err.ControlChar)]

\* PacketFound that never skips a leading Start character
PacketFound_KeepsStart(e, data, EndIndex, tokenByteCount) ==
    LET r == SplitDecodeLoop(e, data, EndIndex, 0, 0, FALSE, Make(tokenByteCount))
    IN  [advance |-> EndIndex + 1, token |-> r.token, err |-> r.err]

\* PacketFound that does not advance past the End character
PacketFound_StopsAtEnd(e, data, EndIndex, tokenByteCount) ==
    LET hasStart == e.Start # StartDisabled /\ At(data, 0) = e.Start
        StartIndex == IF hasStart THEN 1 ELSE 0
        count == IF hasStart THEN tokenByteCount - 1 ELSE tokenByteCount
        r == SplitDecodeLoop(e, data, EndIndex, StartIndex, 0, FALSE, Make(count))
    IN  [advance |-> EndIndex, token |-> r.token, err |-> r.err]

PacketFound(e, data, EndIndex, tokenByteCount) ==
    LET hasStart == e.Start # StartDisabled /\ At(data, 0) = e.Start
        StartIndex == IF hasStart THEN 1 ELSE 0
        count == IF hasStart THEN tokenByteCount - 1 ELSE tokenByteCount
        r == SplitDecodeLoop(e, data, EndIndex, StartIndex, 0, FALSE, Make(count))
    IN  [advance |-> EndIndex + 1, token |-> r.token, err |-> r.err]

SplitPackets(e, data, atEOF) ==
    LET f == FindEnd(e, data, 0, 0) IN
    IF f.EndIndex = -1
    THEN NoEndFound(data, atEOF)
    ELSE PacketFound(e, data, f.EndIndex, f.tokenByteCount)

----------------------------------------------------------------------------
(* Calls of the codec on byte slices drawn from a bounded set. *)

Encodings == {StdEncoding, BluefruitEncoding}

\* the bytes an encoding tells apart and one it does not, and, for an encoding
\* without Start, the byte that byte(StartDisabled) is
Alphabet(e) ==
    {b \in {e.Start, e.EscStart, e.End, e.EscEnd, e.Esc, e.EscEsc} : b \in 0..255}
        \cup {1}
        \cup (IF e.Start = StartDisabled THEN {ToByte(StartDisabled)} ELSE {})

RECURSIVE SeqsUpTo(_, _)
SeqsUpTo(S, n) ==
    IF n = 0 THEN {<<>>}
    ELSE LET shorter == SeqsUpTo(S, n - 1)
         IN  shorter \cup {Append(s, b) : s \in {t \in shorter : Len(t) = n - 1}, b \in S}

Ret(fn, atEOF, advance, bytes, err) ==
    [fn |-> fn, atEOF |-> atEOF, advance |-> advance, bytes |-> bytes, err |-> err]

NoCall == Ret("none", FALSE, 0, <<>>, NoErr)

NoSplit ==
    [data |-> <<>>, atEOF |-> FALSE, advance |-> 0, token |-> NilSlice,
     err |-> NoErr, made |-> FALSE]

ScanIdle ==
    /\ stream = <<>>
    /\ reader = <<>>
    /\ buf = <<>>
    /\ rdErr = "nil"
    /\ actuals = <<>>
    /\ scanErr = NoErr
    /\ done = FALSE
    /\ consumed = 0
    /\ payloads = <<>>
    /\ framed = FALSE
    /\ call = NoSplit
    /\ pc = "split"

Init ==
    /\ enc \in Encodings
    /\ src \in SeqsUpTo(Alphabet(enc), MaxLen)
    /\ ret = NoCall
    /\ ScanIdle

\* enc := Encode(src)
CallEncode ==
    /\ ret.fn = "none"
    /\ ret' = Ret("Encode", FALSE, 0, Encode(src), NoErr)
    /\ UNCHANGED <<src, enc>>
    /\ UNCHANGED scanVars

\* data, err := Decode(src)
CallDecode ==
    /\ ret.fn = "none"
    /\ LET r == Decode(src) IN ret' = Ret("Decode", FALSE, 0, r.data, r.err)
    /\ UNCHANGED <<src, enc>>
    /\ UNCHANGED scanVars

\* data, err := Decode(Encode(src)): Decode applied to what CallEncode returned
CallDecodeEncoded ==
    /\ ret.fn = "Encode"
    /\ LET r == Decode(ret.bytes) IN ret' = Ret("DecodeEncoded", FALSE, 0, r.data, r.err)
    /\ UNCHANGED <<src, enc>>
    /\ UNCHANGED scanVars

\* dst := enc.Encode(src)
CallEncodingEncode ==
    /\ ret.fn = "none"
    /\ ret' = Ret("Encoding.Encode", FALSE, 0, EncodingEncode(enc, src), NoErr)
    /\ UNCHANGED <<src, enc>>
    /\ UNCHANGED scanVars

\* advance, token, err := enc.SplitPackets(src, atEOF)
CallSplitPackets ==
    /\ ret.fn = "none"
    /\ \E atEOF \in BOOLEAN :
          LET r == SplitPackets(enc, src, atEOF)
          IN  ret' = Ret("SplitPackets", atEOF, r.advance, r.token, r.err)
    /\ UNCHANGED <<src, enc>>
    /\ UNCHANGED scanVars

Next ==
    \/ CallEncode
    \/ CallDecode
    \/ CallDecodeEncoded
    \/ CallEncodingEncode
    \/ CallSplitPackets

Spec == Init /\ [][Next]_vars

----------------------------------------------------------------------------
(* NewScanner: a bufio.Scanner whose split function is enc.SplitPackets,   *)
(* driven by the loop "for scanner.Scan() { actuals = append(...) }".      *)
(* Scan alternates between calling the split function on the unconsumed    *)
(* bytes and reading more of the source; a Read delivers any positive      *)
(* number of the remaining bytes, or io.EOF once none remain (a reader may *)
(* also return io.EOF together with its last bytes).                       *)

\* the bytes the sources are drawn from
ScanAlphabet(e) == {b \in {e.Start, e.End, e.Esc, e.EscEnd} : b \in 0..255} \cup {1}

\* the lists of at most k payloads over S holding at most t bytes together
RECURSIVE PayloadLists(_, _, _)
PayloadLists(S, k, t) ==
    IF k = 0 THEN {<<>>}
    ELSE {<<>>} \cup UNION {{<<p>> \o ps : ps \in PayloadLists(S, k - 1, t - Len(p))} :
                             p \in SeqsUpTo(S, t)}

RECURSIVE EncodeAll(_, _)
EncodeAll(e, ps) ==
    IF ps = <<>> THEN <<>> ELSE EncodingEncode(e, Head(ps)) \o EncodeAll(e, Tail(ps))

\* Scanner.Err(): io.EOF is reported as no error
ScannerErr == IF scanErr.kind = "EOF" THEN NoErr ELSE scanErr

ScanStart(e, ps, bytes, isFramed) ==
    /\ enc = e
    /\ payloads = ps
    /\ framed = isFramed
    /\ stream = bytes
    /\ reader = bytes
    /\ buf = <<>>
    /\ rdErr = "nil"
    /\ actuals = <<>>
    /\ scanErr = NoErr
    /\ done = FALSE
    /\ consumed = 0
    /\ call = NoSplit
    /\ pc = "split"
    /\ src = <<>>
    /\ ret = NoCall

ScanInit ==
    \E e \in Encodings :
        \/ \E ps \in PayloadLists(ScanAlphabet(e), MaxPackets, MaxPayloadBytes) :
              ScanStart(e, ps, EncodeAll(e, ps), TRUE)
        \/ \E bytes \in SeqsUpTo(ScanAlphabet(e), MaxStream) :
              ScanStart(e, <<>>, bytes, FALSE)

\* Scan, top of its loop: the split function is tried on what the buffer holds
ScanSplit ==
    /\ ~done
    /\ pc = "split"
    /\ IF Len(buf) > 0 \/ rdErr # "nil"
       THEN LET atEOF == rdErr # "nil"
                r == SplitPackets(enc, buf, atEOF)
            IN  /\ call' = [data |-> buf, atEOF |-> atEOF, advance |-> r.advance,
                            token |-> r.token, err |-> r.err, made |-> TRUE]
                /\ IF r.err # NoErr
                   THEN \* s.setErr(err); return false
                        /\ scanErr' = r.err
                        /\ done' = TRUE
                        /\ UNCHANGED <<buf, consumed, actuals, pc>>
                   ELSE IF r.advance < 0 \/ r.advance > Len(buf)
                   THEN \* s.advance(n) fails: ErrNegativeAdvance, ErrAdvanceTooFar
                        /\ scanErr' = ErrVal("ErrAdvance", 0, 0)
                        /\ done' = TRUE
                        /\ UNCHANGED <<buf, consumed, actuals, pc>>
                   ELSE /\ buf' = SubSeq(buf, r.advance + 1, Len(buf))
                        /\ consumed' = consumed + r.advance
                        /\ IF r.token # NilSlice
                           THEN \* return true: the caller appends scanner.Bytes()
                                /\ actuals' = Append(actuals, r.token)
                                /\ pc' = "split"
                           ELSE /\ actuals' = actuals
                                /\ pc' = "read"
                        /\ UNCHANGED <<scanErr, done>>
       ELSE /\ pc' = "read"
            /\ UNCHANGED <<call, buf, consumed, actuals, scanErr, done>>
    /\ UNCHANGED <<stream, reader, rdErr, payloads, framed>>
    /\ UNCHANGED <<enc, src, ret>>

\* Scan, bottom of its loop: stop on an earlier read error, else read more input
ScanRead ==
    /\ ~done
    /\ pc = "read"
    /\ IF rdErr # "nil"
       THEN /\ done' = TRUE
            /\ buf' = <<>>
            /\ scanErr' = ErrVal(rdErr, 0, 0)
            /\ UNCHANGED <<reader, rdErr, pc>>
       ELSE /\ \E n \in 0..Len(reader) :
               /\ n = 0 => reader = <<>>
               /\ buf' = buf \o SubSeq(reader, 1, n)
               /\ reader' = SubSeq(reader, n + 1, Len(reader))
               /\ \E e \in {"nil", "EOF"} :
                     /\ e = "EOF" => n = Len(reader)
                     /\ n = 0 => e = "EOF"
                     /\ rdErr' = e
            /\ pc' = "split"
            /\ UNCHANGED <<done, scanErr>>
    /\ UNCHANGED <<stream, consumed, actuals, payloads, framed, call>>
    /\ UNCHANGED <<enc, src, ret>>

ScanNext == ScanSplit \/ ScanRead

ScanSpec == ScanInit /\ [][ScanNext]_vars

\* Scan's loop has no suspension point: a step that can be taken is taken
FairScanSpec == ScanSpec /\ WF_vars(ScanNext)

----------------------------------------------------------------------------
(* The framed packet of the specification, stated without the codec.       *)

\* the fixed control characters of slip.go as a configuration
FixedProfile ==
    [Start |-> Start, EscStart |-> StartEsc,
     End |-> End, EscEnd |-> EndEsc,
     Esc |-> Esc, EscEsc |-> EscEsc]

StartEnabled(e) == e.Start # StartDisabled

ControlBytes(e) == {e.End, e.Esc} \cup (IF StartEnabled(e) THEN {e.Start} ELSE {})

Substitutes(e) == {e.EscEnd, e.EscEsc} \cup (IF StartEnabled(e) THEN {e.EscStart} ELSE {})

SubstituteOf(e, b) ==
    IF StartEnabled(e) /\ b = e.Start THEN e.EscStart
    ELSE IF b = e.End THEN e.EscEnd
    ELSE e.EscEsc

RECURSIVE Stuffed(_, _)
Stuffed(e, p) ==
    IF p = <<>> THEN <<>>
    ELSE (IF Head(p) \in ControlBytes(e) THEN <<e.Esc, SubstituteOf(e, Head(p))>>
          ELSE <<Head(p)>>) \o Stuffed(e, Tail(p))

FramedPacket(e, p) ==
    (IF StartEnabled(e) THEN <<e.Start>> ELSE <<>>) \o Stuffed(e, p) \o <<e.End>>

FrameOverhead(e) == IF StartEnabled(e) THEN 2 ELSE 1

NumControl(e, p) == Cardinality({i \in 1..Len(p) : p[i] \in ControlBytes(e)})

NoEndByte(e, b) == \A i \in 1..Len(b) : b[i] # e.End

\* the positions of a span at which an escape sequence begins, reading from i
RECURSIVE EscapeStarts(_, _, _)
EscapeStarts(e, in, i) ==
    IF i > Len(in) THEN {}
    ELSE IF in[i] = e.Esc THEN {i} \cup EscapeStarts(e, in, i + 2)
    ELSE EscapeStarts(e, in, i + 1)

\* an escape sequence begins at the last byte of the span
HasTruncatedEscape(e, in) == Len(in) \in EscapeStarts(e, in, 1)

\* some escape sequence of the span has a byte that is no substitute
HasInvalidEscape(e, in) ==
    \E i \in EscapeStarts(e, in, 1) : i < Len(in) /\ in[i + 1] \notin Substitutes(e)

----------------------------------------------------------------------------
(* Claims about the codec calls, checked under Spec.                       *)

\* C1: fixed-character round trip: for every byte sequence p, the empty one and
\* those made of reserved and substitute bytes included, Decode(Encode(p))
\* returns p and no error.
C1_FixedRoundTrip ==
    ret.fn = "DecodeEncoded" => ret.bytes = src /\ ret.err = NoErr

C1_Witness ==
    /\ ret.fn = "DecodeEncoded"
    /\ src = <<Start, StartEsc, End, Esc, EscEsc>>
    /\ ret.bytes = src

\* C3: exact encoder output: Encode and Encoding.Encode return the Start
\* character (if enabled), then for each payload byte either Esc and the
\* byte's substitute (a control byte) or the byte itself (any other byte,
\* substitute values included), then the End character; the length is
\* len(payload) + frame overhead + number of control bytes of the payload.
C3_ExactEncoding ==
    /\ ret.fn = "Encode" =>
          /\ ret.bytes = FramedPacket(FixedProfile, src)
          /\ Len(ret.bytes) = Len(src) + 2 + NumControl(FixedProfile, src)
    /\ ret.fn = "Encoding.Encode" =>
          /\ ret.bytes = FramedPacket(enc, src)
          /\ Len(ret.bytes) = Len(src) + FrameOverhead(enc) + NumControl(enc, src)

C3_Witness ==
    /\ ret.fn = "Encoding.Encode"
    /\ enc = StdEncoding
    /\ src = <<enc.End, enc.EscEnd, enc.Esc, enc.EscEsc, ToByte(StartDisabled)>>
    /\ ret.bytes = <<enc.Esc, enc.EscEnd, enc.EscEnd, enc.Esc, enc.EscEsc, enc.EscEsc,
                     ToByte(StartDisabled), enc.End>>

\* the kind of error the framing checks of Decode give a buffer
FramingKind(b) ==
    IF Len(b) < 2 THEN "packet is too short"
    ELSE IF b[1] # Start THEN "expected SLIP start"
    ELSE IF b[Len(b)] # End THEN "expected SLIP end"
    ELSE "nil"

Interior(b) == SubSeq(b, 2, Len(b) - 1)

\* the error kinds in the order the claim gives them: truncated escape first
C4_KindTruncatedFirst(b) ==
    IF FramingKind(b) # "nil" THEN FramingKind(b)
    ELSE IF HasTruncatedEscape(FixedProfile, Interior(b))
    THEN "expected an escaped character but reached the end of the buffer"
    ELSE IF HasInvalidEscape(FixedProfile, Interior(b))
    THEN "expected an escaped character but got"
    ELSE "nil"

\* the error kinds with the interior read left to right: an invalid escaped
\* character comes before the escape that the end of the interior truncates
C4_KindLeftToRight(b) ==
    IF FramingKind(b) # "nil" THEN FramingKind(b)
    ELSE IF HasInvalidEscape(FixedProfile, Interior(b))
    THEN "expected an escaped character but got"
    ELSE IF HasTruncatedEscape(FixedProfile, Interior(b))
    THEN "expected an escaped character but reached the end of the buffer"
    ELSE "nil"

\* C4 as claimed: Decode fails as too short, else missing start, else missing
\* end, else truncated escape, else invalid escaped character, in this order,
\* returns no payload on a failure and decodes every other buffer.
C4_TruncatedBeforeInvalid ==
    ret.fn = "Decode" =>
        /\ ret.err.kind = C4_KindTruncatedFirst(src)
        /\ (ret.err = NoErr) <=> (ret.bytes # NilSlice)

\* C4 as amended: Decode fails as too short, else missing start, else missing
\* end, else by the first malformed escape sequence of the interior read left
\* to right (an invalid escaped character before a truncated escape at the
\* end), returns no payload on a failure and decodes every other buffer.
C4_DecodeErrorOrder ==
    ret.fn = "Decode" =>
        /\ ret.err.kind = C4_KindLeftToRight(src)
        /\ (ret.err = NoErr) <=> (ret.bytes # NilSlice)

C4_Witness ==
    /\ ret.fn = "Decode"
    /\ src = <<Start, Esc, 1, Esc, End>>
    /\ ret.err.kind = "expected an escaped character but got"
    /\ ret.bytes = NilSlice

\* C5: need more data: a buffer without an End character and atEOF false give
\* advance 0, no token and no error, whatever the buffer holds.
C5_NeedMoreData ==
    ret.fn = "SplitPackets" /\ ~ret.atEOF /\ NoEndByte(enc, src) =>
        ret.advance = 0 /\ ret.bytes = NilSlice /\ ret.err = NoErr

C5_Witness ==
    /\ ret.fn = "SplitPackets"
    /\ ~ret.atEOF
    /\ src = <<1, enc.Esc, 1, enc.Esc>>
    /\ ret.advance = 0

\* C6: end of source: a buffer without an End character and atEOF true give
\* advance len(data), the buffer itself, undecoded, as the token, and io.EOF,
\* never an InvalidControlCharError.
C6_EndOfSource ==
    ret.fn = "SplitPackets" /\ ret.atEOF /\ NoEndByte(enc, src) =>
        /\ ret.advance = Len(src)
        /\ ret.bytes = src
        /\ ret.err = ErrVal("EOF", 0, 0)

C6_Witness ==
    /\ ret.fn = "SplitPackets"
    /\ ret.atEOF
    /\ src = <<enc.Esc, enc.EscEnd, enc.Esc, 1>>
    /\ ret.advance = 4

\* C8: the fixed encoder equals the configurable encoder on BluefruitEncoding:
\* Encode(p) and BluefruitEncoding.Encode(p) are the same bytes for every p.
C8_FixedEqualsBluefruit ==
    /\ ret.fn = "Encode" => ret.bytes = EncodingEncode(BluefruitEncoding, src)
    /\ ret.fn = "Encoding.Encode" /\ enc = BluefruitEncoding => ret.bytes = Encode(src)

C8_Witness ==
    /\ ret.fn = "Encode"
    /\ src = <<Start, 1, End, Esc>>
    /\ Len(ret.bytes) = 9

\* C9: under BluefruitEncoding, on a buffer that begins with the Start
\* character and whose only End character is its last byte, SplitPackets
\* returns a packet exactly when Decode succeeds, with the same payload, and
\* a decode error exactly when Decode fails, a truncated escape included.
C9_SplitMatchesDecode ==
    (/\ ret.fn = "SplitPackets"
     /\ enc = BluefruitEncoding
     /\ Len(src) >= 2
     /\ src[1] = Start
     /\ src[Len(src)] = End
     /\ NoEndByte(enc, SubSeq(src, 1, Len(src) - 1)))
    => LET d == Decode(src)
       IN  /\ (ret.err = NoErr) <=> (d.err = NoErr)
           /\ d.err = NoErr => ret.bytes = d.data

----------------------------------------------------------------------------
(* Claims about the scanner, checked under ScanSpec and FairScanSpec.      *)

HasEndByte(e, b) == ~NoEndByte(e, b)

\* the position (from 1) of the first End character of b: e + 1 for EndIndex e
FirstEnd(e, b) ==
    CHOOSE i \in 1..Len(b) : b[i] = e.End /\ \A j \in 1..(i - 1) : b[j] # e.End

\* the number of leading bytes the decoding skips: 1 for a Start character
SpanStart(e, b) == IF StartEnabled(e) /\ b[1] = e.Start THEN 1 ELSE 0

\* the bytes between the optional Start character and the first End character
Span(e, b) == SubSeq(b, SpanStart(e, b) + 1, FirstEnd(e, b) - 1)

\* the position in the span (from 0) of the first byte that follows an Esc
\* and is no substitute
FirstInvalid(e, in) ==
    CHOOSE i \in EscapeStarts(e, in, 1) :
        /\ i < Len(in) /\ in[i + 1] \notin Substitutes(e)
        /\ \A j \in EscapeStarts(e, in, 1) :
              j < i => ~(j < Len(in) /\ in[j + 1] \notin Substitutes(e))

\* the End characters among the bytes the scanner has advanced past
EndsConsumed == Cardinality({i \in 1..consumed : stream[i] = enc.End})

IsPrefix(s, t) == Len(s) <= Len(t) /\ s = SubSeq(t, 1, Len(s))

\* C2: streaming round trip: over the concatenation of enc.Encode(p1) ..
\* enc.Encode(pn), for StdEncoding and BluefruitEncoding and however the
\* bytes are divided into reads, the scanner yields exactly p1..pn in order,
\* consumes the whole source and ends with no decode error.
C2_StreamingRoundTrip ==
    framed =>
        /\ IsPrefix(actuals, payloads)
        /\ ScannerErr = NoErr
        /\ done => /\ actuals = payloads
                   /\ consumed = Len(stream)
                   /\ buf = <<>>
                   /\ reader = <<>>

C2_Witness ==
    /\ framed
    /\ done
    /\ enc = BluefruitEncoding
    /\ payloads = << <<enc.Start, enc.Esc>>, <<>> >>
    /\ actuals = payloads

\* the call found an End character and an invalid escape before it
C7_Case ==
    /\ call.made
    /\ HasEndByte(enc, call.data)
    /\ HasInvalidEscape(enc, Span(enc, call.data))

\* what every reading of C7 shares: the error is an InvalidControlCharError
\* carrying the first invalid byte, the scanner stops on it and yields no
\* packet for the span
C7_ErrorAndNoPacket ==
    LET in == Span(enc, call.data) IN
    /\ call.err.kind = "InvalidControlCharError"
    /\ call.err.ControlChar = in[FirstInvalid(enc, in) + 1]
    /\ done
    /\ scanErr = call.err
    /\ buf = call.data
    /\ Len(actuals) = EndsConsumed

\* C7 as claimed: an invalid escape in the span between the optional Start
\* character and the End character makes SplitPackets report
\* InvalidControlCharError for the first such byte, with the byte's value and
\* its index relative to that span, and no packet is emitted for the span.
C7_IndexInSpan ==
    C7_Case =>
        /\ C7_ErrorAndNoPacket
        /\ call.err.Index = FirstInvalid(enc, Span(enc, call.data))

\* C7 as amended: the same, but the index is the byte's index in the buffer
\* handed to SplitPackets, which counts a leading Start character.
C7_IndexInBuffer ==
    C7_Case =>
        /\ C7_ErrorAndNoPacket
        /\ call.err.Index = SpanStart(enc, call.data) + FirstInvalid(enc, Span(enc, call.data))

C7_Witness ==
    /\ call.made
    /\ enc = BluefruitEncoding
    /\ call.data = <<enc.Start, enc.Esc, 1, enc.End>>
    /\ call.err = ErrVal("InvalidControlCharError", 2, 1)
    /\ actuals = <<>>
    /\ done

\* what C10 says of one SplitPackets call, but for the call that consumes nothing
C10_CallBounds ==
    call.made =>
        /\ call.advance >= 0
        /\ call.advance <= Len(call.data)
        /\ HasEndByte(enc, call.data) =>
              /\ call.advance = FirstEnd(enc, call.data)
              /\ call.advance >= 1

\* the buffer handed to the split function begins right after the consumed
\* bytes of the source and holds nothing else than the bytes read since
C10_NoReread ==
    /\ consumed + Len(buf) + Len(reader) = Len(stream)
    /\ buf = SubSeq(stream, consumed + 1, consumed + Len(buf))
    /\ reader = SubSeq(stream, consumed + Len(buf) + 1, Len(stream))
    /\ call.made /\ ~done =>
          IsPrefix(SubSeq(call.data, call.advance + 1, Len(call.data)), buf)

\* C10 as claimed, the part that fails: a call that consumes nothing only
\* happens while more data can still arrive.
C10_NothingConsumedOnlyBeforeEOF ==
    call.made /\ call.advance = 0 => ~call.atEOF

\* a measure of the work the loop has left: every step of the scanner makes
\* it smaller, and it is never negative
ScanVariant ==
    16 * (IF done THEN 0 ELSE 1) + 8 * Len(reader) + 4 * Len(buf)
        + 2 * (IF rdErr = "nil" THEN 1 ELSE 0) + (IF pc = "split" THEN 1 ELSE 0)

\* termination itself, for a loop that keeps running (FairScanSpec)
ScanTerminates == <>done

\* C10 as amended: a call that finds an End character at e consumes exactly
\* e + 1 bytes, a step yields at most one packet (the packets yielded are as
\* many as the End characters consumed), a call that consumes nothing and
\* returns no error only happens while more data can still arrive (at the
\* end of the source only a call on an empty buffer consumes nothing, and it
\* returns io.EOF), consumed bytes are never read again, no call consumes
\* more than the buffer holds, and the loop terminates: every step lowers
\* ScanVariant, which is never negative.
C10_ProgressAndTermination ==
    /\ [](C10_CallBounds /\ C10_NoReread)
    /\ [](call.made /\ call.advance = 0 =>
            \/ ~call.atEOF /\ call.err = NoErr /\ call.token = NilSlice
            \/ call.atEOF /\ call.data = <<>> /\ call.err = ErrVal("EOF", 0, 0))
    /\ [](Len(actuals) = EndsConsumed /\ ScanVariant >= 0)
    /\ [][/\ consumed' >= consumed
          /\ Len(actuals') <= Len(actuals) + 1
          /\ Len(actuals') = Len(actuals) + 1 => consumed' > consumed
          /\ ScanVariant' < ScanVariant]_vars

C10_Witness ==
    /\ done
    /\ ~framed
    /\ enc = StdEncoding
    /\ stream = <<1, enc.End, enc.End, 1>>
    /\ actuals = << <<1>>, <<>> >>
    /\ consumed = 3
    /\ call.atEOF /\ call.advance = 1 /\ call.data = <<1>>

====
